---- MODULE Spec2Model ----
(***************************************************************************)
(* Credit ledger and referral-reward subsystem of the WhatsApp             *)
(* transcription assistant: recordTranscription / addCredits               *)
(* (routes/transcribe.js, helpers/database.js), addCreditsToUser /         *)
(* checkReferralCreditLimit (services/credit-manager.js) and               *)
(* processReferralCode (services/referral-service.js), run by concurrent   *)
(* request handlers against one PostgreSQL store.                          *)
(*                                                                         *)
(* The store is modelled at the level the code relies on: READ COMMITTED   *)
(* transactions (writes visible to other connections only after COMMIT),   *)
(* row locks taken by UPDATE and held until the transaction ends, the      *)
(* UNIQUE(referrer_id, referee_id) constraint, and the pools'              *)
(* statement_timeout that ends a lock wait with an error.  Every await of  *)
(* a handler is one atomic step.                                           *)
(***************************************************************************)
EXTENDS Integers, FiniteSets, Sequences, Bags, TLC

VARIABLES
    users,                \* table users: user id -> row (rows that exist)
    transcriptions,       \* table Transcriptions: user id -> number of rows
    payments,             \* table Payments: bag of rows
    credit_transactions,  \* table credit_transactions: bag of rows
    referrals,            \* table referrals: set of rows (committed)
    proc,                 \* per request handler: position, arguments, locals
    successes,            \* history: bag of (referrer, referee) of the
                          \* processReferralCode calls that returned success
    calls,                \* number of calls started so far
    faults                \* number of injected store errors so far

db == <<users, transcriptions, payments, credit_transactions, referrals>>
vars == <<users, transcriptions, payments, credit_transactions, referrals,
          proc, successes, calls, faults>>

(***************************************************************************)
(* Bounds of the model.                                                    *)
(***************************************************************************)
MaxCalls == 2
MaxFaults == 1
Users == {1, 2, 3}
Procs == {1, 2}
AudioSeconds == {1, 2}
PaymentCredits == {10}
GrantAmounts == {5}
GrantTypes == {"payment", "referral_bonus"}

(***************************************************************************)
(* Program constants.                                                      *)
(***************************************************************************)
REFERRAL_CREDIT_AMOUNT == 5
MAX_USES_PER_CODE == 5
LIFETIME_REFERRAL_LIMIT == 25
InitialCredits == 50
CodeLength == 6
MAX_ATTEMPTS == 5

CREDIT_OPERATIONS ==
    [PAYMENT |-> "payment", REFERRAL_BONUS |-> "referral_bonus",
     REFERRAL_RECEIVED |-> "referral_received", INITIAL_FREE |-> "initial_free",
     PROMOTIONAL |-> "promotional"]

\* Referral codes are strings of characters; NoCode is a NULL referral_code.
NoCode == << >>
CodeA == <<"A", "B", "C", "1", "2", "5">>
CodeC == <<"X", "Y", "W", "2", "5", "8">>
CodeUnknown == <<"H", "J", "K", "0", "1", "2">>
CodeShort == <<"A", "B", "C">>
CodeInputs == {CodeA, CodeC, CodeUnknown, CodeShort}

\* const TEST_CODES = { VALID: "TEST123", ... }
TEST_CODES ==
    [VALID |-> <<"T", "E", "S", "T", "1", "2", "3">>,
     SELF_REFERRAL |-> <<"S", "E", "L", "F", "1", "2", "3">>,
     ALREADY_USED |-> <<"U", "S", "E", "D", "1", "2", "3">>,
     MAXED_OUT |-> <<"F", "U", "L", "L", "1", "2", "3">>,
     LIMIT_REACHED |-> <<"L", "I", "M", "I", "T", "1", "2", "3">>]

MagicCodes == {TEST_CODES[k] : k \in DOMAIN TEST_CODES}

\* What generateReferralCode() can draw: six characters of ALLOWED_CHARS, so
\* possibly a code that some user holds already.
GeneratedCodes == {CodeA, CodeC, CodeUnknown}

\* return 'ERROR01' in the catch block of generateReferralCodeForUser.
ErrorCode == <<"E", "R", "R", "O", "R", "0", "1">>

Min(a, b) == IF a < b THEN a ELSE b
Max(a, b) == IF a > b THEN a ELSE b

(***************************************************************************)
(* Rows.                                                                   *)
(***************************************************************************)
\* INSERT INTO users (..., credits_remaining, free_trial_used, has_seen_intro)
\* VALUES (..., 50, false, false); the other columns take their defaults.
NewUserRow ==
    [credits_remaining |-> InitialCredits, free_trial_used |-> FALSE,
     usage_count |-> 0, total_seconds |-> 0,
     referral_code |-> NoCode, referral_code_uses |-> 0]

NoRow == [credits_remaining |-> 0, free_trial_used |-> FALSE,
          usage_count |-> 0, total_seconds |-> 0,
          referral_code |-> NoCode, referral_code_uses |-> 0]

\* metadata holds the counterpart of a referral grant ({ referredUser } or
\* { referrerUser }); 0 stands for metadata without one.
CreditTx(u, amount, optype, counterpart) ==
    [user_id |-> u, credits_amount |-> amount, operation_type |-> optype,
     metadata |-> counterpart]

Payment(u, credits) == [user_id |-> u, credits_purchased |-> credits]

Referral(referrer, referee, rc, ec) ==
    [referrer_id |-> referrer, referee_id |-> referee,
     referrer_credits |-> rc, referee_credits |-> ec]

\* Mutant: free_trial_used set only when the new balance is below 0.
RecordUsageStrict(row, secs) ==
    [row EXCEPT !.usage_count = @ + 1,
                !.total_seconds = @ + secs,
                !.credits_remaining = @ - 1,
                !.free_trial_used =
                    IF row.credits_remaining - 1 < 0 THEN TRUE ELSE @]

\* Mutant: the balance is not lowered below 0.
RecordUsageClamped(row, secs) ==
    [row EXCEPT !.usage_count = @ + 1,
                !.total_seconds = @ + secs,
                !.credits_remaining = Max(@ - 1, 0),
                !.free_trial_used =
                    IF row.credits_remaining - 1 <= 0 THEN TRUE ELSE @]

\* UPDATE users SET usage_count = usage_count + 1,
\*   total_seconds = total_seconds + $1,
\*   credits_remaining = credits_remaining - 1,
\*   free_trial_used = CASE WHEN credits_remaining - 1 <= 0 THEN TRUE
\*                     ELSE free_trial_used END
RecordUsage(row, secs) ==
    [row EXCEPT !.usage_count = @ + 1,
                !.total_seconds = @ + secs,
                !.credits_remaining = @ - 1,
                !.free_trial_used =
                    IF row.credits_remaining - 1 <= 0 THEN TRUE ELSE @]

\* Mutant: the balance rises by twice the amount.
CreditRowTwice(row, amount) ==
    [row EXCEPT !.credits_remaining = @ + amount + amount]

\* UPDATE users SET credits_remaining = credits_remaining + $1
CreditRow(row, amount) == [row EXCEPT !.credits_remaining = @ + amount]

\* UPDATE users SET referral_code_uses = referral_code_uses + 1
UseRow(row) == [row EXCEPT !.referral_code_uses = @ + 1]

(***************************************************************************)
(* Request handlers.                                                       *)
(***************************************************************************)
NoResult ==
    [kind |-> "none", error |-> "", referrerCreditsAdded |-> 0,
     refereeCreditsAdded |-> 0, codeUsesRemaining |-> 0, user |-> NoRow,
     code |-> NoCode]

\* History: what processReferralCode found in the store when it was called.
NoSnapshot ==
    [referrerTotal |-> 0, refereeTotal |-> 0, referrerUses |-> 0,
     referrerBalance |-> 0, refereeBalance |-> 0, pairExisted |-> FALSE]

\* conns: the pool clients the call has checked out with pool.connect() and
\* not yet given back with client.release(), named by their pool, the
\* innermost function's client last.
IdleProc ==
    [pc |-> "idle", op |-> "none", user |-> 0, code |-> NoCode, secs |-> 0,
     amount |-> 0, optype |-> "", referrer |-> 0,
     before |-> NoSnapshot,
     referrerCredits |-> 0, refereeCredits |-> 0,
     atuUser |-> 0, atuAmount |-> 0, atuType |-> "", atuMeta |-> 0,
     ret |-> "",
     attempts |-> 0, newCode |-> NoCode,
     flow |-> "none", reply |-> "none",
     conns |-> << >>, testMode |-> FALSE, message |-> << >>,
     row |-> NoRow, eff |-> {}, failedAt |-> "", result |-> NoResult]

\* The pools: one Pool object per module.  "database" is the pool of the
\* database module as configured in routes/transcribe.js (statement_timeout
\* 5000, connectionTimeoutMillis 10000, max 20), "helpers" the pool of
\* helpers/database.js (connection string and ssl only: no statement
\* timeout, no connection timeout, the default max), "credit" the pool of
\* the credit manager and "referral" the pool of the referral service (both
\* configured like "database").
Pools == {"database", "helpers", "credit", "referral"}

\* Pools created with statement_timeout and connectionTimeoutMillis.
PoolsWithTimeouts == {"database", "credit", "referral"}

\* client.release() in a finally block: the function's own client goes back.
Released(conns) == SubSeq(conns, 1, Len(conns) - 1)

\* Mutant: an exception is answered by the innermost function's finally
\* block alone; the clients of its callers stay checked out.
UnwoundInnermost(conns) == Released(conns)

\* An exception that ends the call passes the finally block of every
\* function on the stack, and each releases the client it holds.
Unwound(conns) == << >>

\* A handler can take a new request when it is not inside one.
CanStart(p) == proc[p].pc \in {"idle", "done"} /\ calls < MaxCalls

Thrown == [NoResult EXCEPT !.kind = "thrown"]

ReferralResult(err) == [NoResult EXCEPT !.kind = "failure", !.error = err]

\* Rows of users locked by the transaction on handler q's own connection:
\* the row its UPDATE wrote, until its COMMIT or ROLLBACK.
OuterLocks(q) ==
    IF proc[q].pc \in {"rt_commit", "ac_commit"} THEN {proc[q].user}
    ELSE IF proc[q].op = "processReferralCode"
            /\ proc[q].pc \in {"prc_grant_referrer", "prc_grant_referee",
                               "prc_commit", "atu_write", "atu_commit"}
         THEN {proc[q].referrer}
    ELSE {}

\* Rows locked by the transaction addCreditsToUser opened on its connection.
InnerLocks(q) == IF proc[q].pc = "atu_commit" THEN {proc[q].atuUser} ELSE {}

\* Is row u locked against the UPDATE of handler p's own transaction?
LockedForOuter(u, p) ==
    \E q \in Procs \ {p} : u \in OuterLocks(q) \cup InnerLocks(q)

\* Is row u locked against the UPDATE of addCreditsToUser run by handler p?
\* The caller's open transaction is another connection: its locks count.
LockedForInner(u, p) ==
    \/ u \in OuterLocks(p)
    \/ \E q \in Procs \ {p} : u \in OuterLocks(q) \cup InnerLocks(q)

(***************************************************************************)
(* Initial states: the store after earlier traffic.  User 1 owns CodeA,    *)
(* user 2 is a low-balance user without a code, user 3 owns CodeC or has   *)
(* not contacted the service yet.  Each row is one the operations below    *)
(* produce: used transcriptions by recordTranscription, a referral total   *)
(* by addCreditsToUser with a referral operation type, a code by           *)
(* generateReferralCodeForUser, code uses by redemptions of users that     *)
(* take no further part (their rows and referral records are left out).    *)
(* A code with uses belongs to an owner at the lifetime limit: only then   *)
(* does a redemption commit (see ProcessReferralCodeGrantReferrer).        *)
(***************************************************************************)
UserRow(used, refTotal, code, uses) ==
    [credits_remaining |-> InitialCredits + refTotal - used,
     free_trial_used |-> FALSE,
     usage_count |-> used, total_seconds |-> used,
     referral_code |-> code, referral_code_uses |-> uses]

OwnerProfiles ==
    { [used |-> 46, refTotal |-> 0, uses |-> 0],
      [used |-> 46, refTotal |-> LIFETIME_REFERRAL_LIMIT, uses |-> 4],
      [used |-> 46, refTotal |-> LIFETIME_REFERRAL_LIMIT, uses |-> 5] }

RedeemerProfiles ==
    { [used |-> 49, refTotal |-> 0],
      [used |-> 71, refTotal |-> 22] }

HistoryTx(u, refTotal, optype) ==
    IF refTotal = 0 THEN EmptyBag
    ELSE SetToBag({CreditTx(u, refTotal, optype, 0)})

Init ==
    \E a \in OwnerProfiles, b \in RedeemerProfiles, c \in BOOLEAN :
        /\ users =
             (1 :> UserRow(a.used, a.refTotal, CodeA, a.uses))
             @@ (2 :> UserRow(b.used, b.refTotal, NoCode, 0))
             @@ (IF c THEN 3 :> UserRow(46, LIFETIME_REFERRAL_LIMIT, CodeC, 0)
                 ELSE << >>)
        /\ transcriptions =
             (1 :> a.used) @@ (2 :> b.used) @@ (3 :> IF c THEN 46 ELSE 0)
        /\ payments = EmptyBag
        /\ credit_transactions =
             HistoryTx(1, a.refTotal, CREDIT_OPERATIONS.REFERRAL_BONUS)
             (+) HistoryTx(2, b.refTotal, CREDIT_OPERATIONS.REFERRAL_RECEIVED)
             (+) HistoryTx(3, IF c THEN LIFETIME_REFERRAL_LIMIT ELSE 0,
                           CREDIT_OPERATIONS.REFERRAL_BONUS)
        /\ referrals = {}
        /\ proc = [p \in Procs |-> IdleProc]
        /\ successes = EmptyBag
        /\ calls = 0
        /\ faults = 0

(***************************************************************************)
(* findOrCreateUser: on its own pooled connection, outside any             *)
(* transaction of the caller, so a created row is committed at once.       *)
(***************************************************************************)
FindOrCreateUser(phone) ==
    IF phone \in DOMAIN users THEN users ELSE users @@ (phone :> NewUserRow)

(***************************************************************************)
(* recordTranscription(phoneNumber, audioLengthSeconds, ...)               *)
(***************************************************************************)
\* pool.connect(); BEGIN; findOrCreateUser(phoneNumber)
RecordTranscriptionBegin(p, phone, secs) ==
    /\ CanStart(p)
    /\ calls' = calls + 1
    /\ users' = FindOrCreateUser(phone)
    /\ proc' = [proc EXCEPT ![p] =
                  [IdleProc EXCEPT !.pc = "rt_write",
                                   !.op = "recordTranscription",
                                   !.user = phone, !.secs = secs,
                                   !.conns = Released(<<"database",
                                                        "database">>)]]
    /\ UNCHANGED <<transcriptions, payments, credit_transactions, referrals,
                   successes, faults>>

\* INSERT INTO Transcriptions ...; UPDATE users ... RETURNING *
\* The UPDATE waits while another transaction holds the row.
RecordTranscriptionWrite(p) ==
    /\ proc[p].pc = "rt_write"
    /\ ~LockedForOuter(proc[p].user, p)
    /\ proc' = [proc EXCEPT ![p].pc = "rt_commit",
                            ![p].row = RecordUsage(users[proc[p].user],
                                                   proc[p].secs)]
    /\ UNCHANGED <<db, successes, calls, faults>>

\* COMMIT; return { transcription, user }
RecordTranscriptionCommit(p) ==
    /\ proc[p].pc = "rt_commit"
    /\ transcriptions' =
         [transcriptions EXCEPT ![proc[p].user] = @ + 1]
    /\ users' = [users EXCEPT ![proc[p].user] = RecordUsage(@, proc[p].secs)]
    /\ proc' = [proc EXCEPT ![p].pc = IF proc[p].ret = "" THEN "done"
                                      ELSE proc[p].ret,
                            ![p].conns = Released(@),
                            ![p].eff = {<<"transcription", proc[p].user, 1>>},
                            ![p].result =
                               [NoResult EXCEPT !.kind = "returned",
                                                !.user = proc[p].row]]
    /\ UNCHANGED <<payments, credit_transactions, referrals, successes, calls,
                   faults>>

(***************************************************************************)
(* addCredits(phoneNumber, credits, ...): the payment path.                *)
(***************************************************************************)
\* pool.connect(); BEGIN; findOrCreateUser(phoneNumber)
AddCreditsBegin(p, phone, credits) ==
    /\ CanStart(p)
    /\ calls' = calls + 1
    /\ users' = FindOrCreateUser(phone)
    /\ proc' = [proc EXCEPT ![p] =
                  [IdleProc EXCEPT !.pc = "ac_write", !.op = "addCredits",
                                   !.user = phone, !.amount = credits,
                                   !.conns = Released(<<"database",
                                                        "database">>)]]
    /\ UNCHANGED <<transcriptions, payments, credit_transactions, referrals,
                   successes, faults>>

\* INSERT INTO Payments ...; UPDATE users ... RETURNING *
AddCreditsWrite(p) ==
    /\ proc[p].pc = "ac_write"
    /\ ~LockedForOuter(proc[p].user, p)
    /\ proc' = [proc EXCEPT ![p].pc = "ac_commit",
                            ![p].row = CreditRow(users[proc[p].user],
                                                 proc[p].amount)]
    /\ UNCHANGED <<db, successes, calls, faults>>

\* COMMIT; return { payment, user }
AddCreditsCommit(p) ==
    /\ proc[p].pc = "ac_commit"
    /\ payments' = payments (+) SetToBag({Payment(proc[p].user, proc[p].amount)})
    /\ users' = [users EXCEPT ![proc[p].user] = CreditRow(@, proc[p].amount)]
    /\ proc' = [proc EXCEPT ![p].pc = "done",
                            ![p].conns = Released(@),
                            ![p].eff = {<<"payment", proc[p].user,
                                          proc[p].amount>>},
                            ![p].result =
                               [NoResult EXCEPT !.kind = "returned",
                                                !.user = proc[p].row]]
    /\ UNCHANGED <<transcriptions, credit_transactions, referrals, successes,
                   calls, faults>>

(***************************************************************************)
(* Errors.  An exception in a handler runs its catch block: ROLLBACK on    *)
(* the handler's connection, then recordTranscription, addCredits and      *)
(* addCreditsToUser rethrow, and processReferralCode (also when the        *)
(* exception comes out of a nested addCreditsToUser, which has rolled its  *)
(* own transaction back) returns PROCESSING_ERROR.  What an earlier        *)
(* transaction of the same call committed stays committed.  The catch      *)
(* block of generateReferralCodeForUser returns the string 'ERROR01'; that *)
(* of regenerateReferralCode rethrows.                                     *)
(***************************************************************************)
\* The statements of generateReferralCodeForUser.
GeneratePoints == {"gen_select", "gen_check", "gen_save"}

FailedProc(pr) ==
    [pr EXCEPT !.pc = "done",
               !.conns = Unwound(@),
               !.failedAt = pr.pc,
               !.result = IF pr.pc \in GeneratePoints
                             /\ pr.op # "regenerateReferralCode"
                          THEN [NoResult EXCEPT !.kind = "returned",
                                                !.code = ErrorCode]
                          ELSE IF pr.op = "processReferralCode"
                          THEN ReferralResult("PROCESSING_ERROR")
                          ELSE Thrown]

\* The statements at which a store error is injected.
FaultPoints ==
    {"rt_write", "rt_commit", "ac_write", "ac_commit", "atu_write",
     "atu_commit", "prc_insert", "prc_increment", "prc_commit", "prc_read"}
    \cup GeneratePoints \cup {"focu_query", "focu_insert", "db_find"}

Fault(p) ==
    /\ proc[p].pc \in FaultPoints
    /\ faults < MaxFaults
    /\ faults' = faults + 1
    /\ proc' = [proc EXCEPT ![p] = FailedProc(@)]
    /\ UNCHANGED <<db, successes, calls>>

(***************************************************************************)
(* addCreditsToUser(userId, creditAmount, operationType)                   *)
(***************************************************************************)
AddCreditsToUserCall(p, userId, creditAmount, operationType) ==
    /\ CanStart(p)
    /\ calls' = calls + 1
    /\ proc' = [proc EXCEPT ![p] =
                  [IdleProc EXCEPT !.pc = "atu_write",
                                   !.op = "addCreditsToUser",
                                   !.atuUser = userId,
                                   !.atuAmount = creditAmount,
                                   !.atuType = operationType,
                                   !.atuMeta = 0,
                                   !.ret = "done"]]
    /\ UNCHANGED <<db, successes, faults>>

\* pool.connect(); BEGIN; INSERT INTO credit_transactions ...;
\* UPDATE users SET credits_remaining = credits_remaining + $1 ...
\* The INSERT fails on the foreign key when the user row does not exist; the
\* UPDATE waits while another transaction holds the row.
AddCreditsToUserWrite(p) ==
    /\ proc[p].pc = "atu_write"
    /\ IF proc[p].atuUser \notin DOMAIN users
       THEN proc' = [proc EXCEPT ![p] = FailedProc(@)]
       ELSE /\ ~LockedForInner(proc[p].atuUser, p)
            /\ proc' = [proc EXCEPT ![p].pc = "atu_commit",
                                    ![p].conns = Append(@, "credit"),
                                    ![p].row = CreditRow(users[proc[p].atuUser],
                                                         proc[p].atuAmount)]
    /\ UNCHANGED <<db, successes, calls, faults>>

\* COMMIT; return { user, transaction }
AddCreditsToUserCommit(p) ==
    /\ proc[p].pc = "atu_commit"
    /\ credit_transactions' =
         credit_transactions
         (+) SetToBag({CreditTx(proc[p].atuUser, proc[p].atuAmount,
                                proc[p].atuType, proc[p].atuMeta)})
    /\ users' = [users EXCEPT ![proc[p].atuUser] =
                                 CreditRow(@, proc[p].atuAmount)]
    /\ proc' = [proc EXCEPT
                  ![p].pc = proc[p].ret,
                  ![p].conns = Released(@),
                  ![p].eff = @ \cup {<<"credit", proc[p].atuUser,
                                       proc[p].atuAmount>>},
                  ![p].result = IF proc[p].ret = "done"
                                THEN [NoResult EXCEPT !.kind = "returned",
                                                      !.user = proc[p].row]
                                ELSE @]
    /\ UNCHANGED <<transcriptions, payments, referrals, successes, calls,
                   faults>>

(***************************************************************************)
(* checkReferralCreditLimit(userId): on its own pooled connection, so it   *)
(* reads the committed credit_transactions rows.                           *)
(***************************************************************************)
RECURSIVE SumAmounts(_, _)
SumAmounts(rows, bag) ==
    IF rows = {} THEN 0
    ELSE LET r == CHOOSE x \in rows : TRUE
         IN  r.credits_amount * CopiesIn(r, bag) + SumAmounts(rows \ {r}, bag)

\* SELECT COALESCE(SUM(credits_amount), 0) FROM credit_transactions
\* WHERE user_id = $1 AND (operation_type = $2 OR operation_type = $3)
ReferralTotal(u) ==
    SumAmounts({r \in BagToSet(credit_transactions) :
                   /\ r.user_id = u
                   /\ \/ r.operation_type = CREDIT_OPERATIONS.REFERRAL_BONUS
                      \/ r.operation_type = CREDIT_OPERATIONS.REFERRAL_RECEIVED},
               credit_transactions)

CheckReferralCreditLimit(u) ==
    LET totalReferralCredits == ReferralTotal(u)
    IN  [hasReachedLimit |-> totalReferralCredits >= LIFETIME_REFERRAL_LIMIT,
         totalReferralCredits |-> totalReferralCredits,
         remainingReferralCredits |->
             Max(0, LIFETIME_REFERRAL_LIMIT - totalReferralCredits)]

\* Math.min(REFERRAL_CREDIT_AMOUNT, limitCheck.remainingReferralCredits)
ReferralCredits(limitCheck) ==
    Min(REFERRAL_CREDIT_AMOUNT, limitCheck.remainingReferralCredits)

(***************************************************************************)
(* processReferralCode(referralCode, newUser)                              *)
(***************************************************************************)
\* SELECT * FROM referrals WHERE referrer_id = $1 AND referee_id = $2
ReferralExists(referrer, referee) ==
    \E r \in referrals : r.referrer_id = referrer /\ r.referee_id = referee

\* SELECT * FROM users WHERE referral_code = $1 (referral_code is UNIQUE)
CodeOwners(code) == {u \in DOMAIN users : users[u].referral_code = code}

\* Mutant: the usage check lets a code with exactly 5 uses through.
ValidateCodeOffByOne(code, newUser) ==
    IF code = NoCode \/ Len(code) # CodeLength THEN "INVALID_CODE"
    ELSE IF CodeOwners(code) = {} THEN "INVALID_CODE"
    ELSE LET referrer == CHOOSE u \in CodeOwners(code) : TRUE
         IN  IF users[referrer].referral_code_uses > MAX_USES_PER_CODE
             THEN "CODE_MAXED_OUT"
             ELSE IF referrer = newUser THEN "SELF_REFERRAL"
             ELSE ""

\* Mutant: the self-referral check is left out.
ValidateCodeNoSelfCheck(code, newUser) ==
    IF code = NoCode \/ Len(code) # CodeLength THEN "INVALID_CODE"
    ELSE IF CodeOwners(code) = {} THEN "INVALID_CODE"
    ELSE LET referrer == CHOOSE u \in CodeOwners(code) : TRUE
         IN  IF users[referrer].referral_code_uses >= MAX_USES_PER_CODE
             THEN "CODE_MAXED_OUT"
             ELSE ""

\* Mutant: the self-referral check comes before the usage check.
ValidateCodeSelfFirst(code, newUser) ==
    IF code = NoCode \/ Len(code) # CodeLength THEN "INVALID_CODE"
    ELSE IF CodeOwners(code) = {} THEN "INVALID_CODE"
    ELSE LET referrer == CHOOSE u \in CodeOwners(code) : TRUE
         IN  IF referrer = newUser THEN "SELF_REFERRAL"
             ELSE IF users[referrer].referral_code_uses >= MAX_USES_PER_CODE
             THEN "CODE_MAXED_OUT"
             ELSE ""

\* The format check and checks 1 to 3, in the order of the code: the error
\* the call returns, or "" when it goes on to check 4.
ValidateCode(code, newUser) ==
    IF code = NoCode \/ Len(code) # CodeLength THEN "INVALID_CODE"
    ELSE IF CodeOwners(code) = {} THEN "INVALID_CODE"
    ELSE LET referrer == CHOOSE u \in CodeOwners(code) : TRUE
         IN  IF users[referrer].referral_code_uses >= MAX_USES_PER_CODE
             THEN "CODE_MAXED_OUT"
             ELSE IF referrer = newUser THEN "SELF_REFERRAL"
             ELSE ""

Referrer(code) == CHOOSE u \in CodeOwners(code) : TRUE

Snapshot(referrer, newUser) ==
    [referrerTotal |-> ReferralTotal(referrer),
     refereeTotal |-> ReferralTotal(newUser),
     referrerUses |-> users[referrer].referral_code_uses,
     referrerBalance |-> users[referrer].credits_remaining,
     refereeBalance |-> users[newUser].credits_remaining,
     pairExisted |-> ReferralExists(referrer, newUser)]

\* The format check; pool.connect(); BEGIN; SELECT the referrer; checks 1-3,
\* each ending the call after ROLLBACK.
ProcessReferralCodeFind(p, code, newUser) ==
    /\ CanStart(p)
    /\ newUser \in DOMAIN users
    /\ calls' = calls + 1
    /\ LET err == ValidateCode(code, newUser)
           start == [IdleProc EXCEPT !.op = "processReferralCode",
                                     !.code = code, !.user = newUser]
       IN  proc' = [proc EXCEPT ![p] =
                      IF err # ""
                      THEN [start EXCEPT !.pc = "done",
                                         !.result = ReferralResult(err)]
                      ELSE [start EXCEPT
                              !.pc = "prc_exists",
                              !.conns = <<"referral">>,
                              !.referrer = Referrer(code),
                              !.before = Snapshot(Referrer(code), newUser)]]
    /\ UNCHANGED <<db, successes, faults>>

\* Mutant: the usage counter is raised before the existing-referral check.
ProcessReferralCodeExistsCounting(p) ==
    /\ proc[p].pc = "prc_exists"
    /\ proc' = [proc EXCEPT ![p] =
                  IF ReferralExists(proc[p].referrer, proc[p].user)
                  THEN [@ EXCEPT !.pc = "done",
                                 !.conns = Released(@),
                                 !.result = ReferralResult("ALREADY_REFERRED")]
                  ELSE [@ EXCEPT !.pc = "prc_limit_referrer"]]
    /\ users' = [users EXCEPT ![proc[p].referrer] = UseRow(@)]
    /\ UNCHANGED <<transcriptions, payments, credit_transactions, referrals,
                   successes, calls, faults>>

\* 4. if (existingReferralCheck.rows.length > 0) ... ALREADY_REFERRED
ProcessReferralCodeExists(p) ==
    /\ proc[p].pc = "prc_exists"
    /\ proc' = [proc EXCEPT ![p] =
                  IF ReferralExists(proc[p].referrer, proc[p].user)
                  THEN [@ EXCEPT !.pc = "done",
                                 !.conns = Released(@),
                                 !.result = ReferralResult("ALREADY_REFERRED")]
                  ELSE [@ EXCEPT !.pc = "prc_limit_referrer"]]
    /\ UNCHANGED <<db, successes, calls, faults>>

\* 5. referrerLimitCheck = await checkReferralCreditLimit(referrer.id)
ProcessReferralCodeLimitReferrer(p) ==
    /\ proc[p].pc = "prc_limit_referrer"
    /\ proc' = [proc EXCEPT
                  ![p].pc = "prc_limit_referee",
                  ![p].conns = Released(Append(@, "credit")),
                  ![p].referrerCredits =
                      ReferralCredits(CheckReferralCreditLimit(proc[p].referrer))]
    /\ UNCHANGED <<db, successes, calls, faults>>

\* refereeLimitCheck = await checkReferralCreditLimit(newUser.id)
ProcessReferralCodeLimitReferee(p) ==
    /\ proc[p].pc = "prc_limit_referee"
    /\ proc' = [proc EXCEPT
                  ![p].pc = "prc_insert",
                  ![p].conns = Released(Append(@, "credit")),
                  ![p].refereeCredits =
                      ReferralCredits(CheckReferralCreditLimit(proc[p].user))]
    /\ UNCHANGED <<db, successes, calls, faults>>

\* The (referrer, referee) pair handler q has inserted and not yet committed.
PendingPairs(q) ==
    IF /\ proc[q].op = "processReferralCode"
       /\ proc[q].pc \in {"prc_increment", "prc_grant_referrer",
                          "prc_grant_referee", "prc_commit",
                          "atu_write", "atu_commit"}
    THEN {<<proc[q].referrer, proc[q].user>>}
    ELSE {}

PairPendingElsewhere(p) ==
    \E q \in Procs \ {p} : <<proc[p].referrer, proc[p].user>> \in PendingPairs(q)

\* 6. INSERT INTO referrals ...  UNIQUE(referrer_id, referee_id): the insert
\* fails when the pair is committed, and waits while another transaction has
\* inserted the pair and is still open.
ProcessReferralCodeInsert(p) ==
    /\ proc[p].pc = "prc_insert"
    /\ ~PairPendingElsewhere(p)
    /\ proc' = [proc EXCEPT ![p] =
                  IF ReferralExists(proc[p].referrer, proc[p].user)
                  THEN FailedProc(@)
                  ELSE [@ EXCEPT !.pc = "prc_increment"]]
    /\ UNCHANGED <<db, successes, calls, faults>>

\* 7. UPDATE users SET referral_code_uses = referral_code_uses + 1
\* on the transaction's connection: the referrer's row stays locked until
\* this transaction ends.
ProcessReferralCodeIncrement(p) ==
    /\ proc[p].pc = "prc_increment"
    /\ ~LockedForOuter(proc[p].referrer, p)
    /\ proc' = [proc EXCEPT ![p].pc = "prc_grant_referrer"]
    /\ UNCHANGED <<db, successes, calls, faults>>

\* 8. if (referrerCredits > 0) await addCreditsToUser(referrer.id, ...)
\* addCreditsToUser takes its own connection and transaction.
ProcessReferralCodeGrantReferrer(p) ==
    /\ proc[p].pc = "prc_grant_referrer"
    /\ proc' = [proc EXCEPT ![p] =
                  IF proc[p].referrerCredits > 0
                  THEN [@ EXCEPT !.pc = "atu_write",
                                 !.atuUser = proc[p].referrer,
                                 !.atuAmount = proc[p].referrerCredits,
                                 !.atuType = CREDIT_OPERATIONS.REFERRAL_BONUS,
                                 !.atuMeta = proc[p].user,
                                 !.ret = "prc_grant_referee"]
                  ELSE [@ EXCEPT !.pc = "prc_grant_referee"]]
    /\ UNCHANGED <<db, successes, calls, faults>>

\* if (refereeCredits > 0) await addCreditsToUser(newUser.id, ...)
ProcessReferralCodeGrantReferee(p) ==
    /\ proc[p].pc = "prc_grant_referee"
    /\ proc' = [proc EXCEPT ![p] =
                  IF proc[p].refereeCredits > 0
                  THEN [@ EXCEPT !.pc = "atu_write",
                                 !.atuUser = proc[p].user,
                                 !.atuAmount = proc[p].refereeCredits,
                                 !.atuType = CREDIT_OPERATIONS.REFERRAL_RECEIVED,
                                 !.atuMeta = proc[p].referrer,
                                 !.ret = "prc_commit"]
                  ELSE [@ EXCEPT !.pc = "prc_commit"]]
    /\ UNCHANGED <<db, successes, calls, faults>>

\* COMMIT: the referral record and the usage counter become visible.
ProcessReferralCodeCommit(p) ==
    /\ proc[p].pc = "prc_commit"
    /\ referrals' = referrals \cup
                      {Referral(proc[p].referrer, proc[p].user,
                                proc[p].referrerCredits, proc[p].refereeCredits)}
    /\ users' = [users EXCEPT ![proc[p].referrer] = UseRow(@)]
    /\ proc' = [proc EXCEPT
                  ![p].pc = "prc_read",
                  ![p].eff = @ \cup {<<"referral", proc[p].referrer, proc[p].user>>,
                                     <<"uses", proc[p].referrer, 1>>}]
    /\ UNCHANGED <<transcriptions, payments, credit_transactions, successes,
                   calls, faults>>

\* SELECT the updated referee and referrer; return { success: true, ... }
ProcessReferralCodeRead(p) ==
    /\ proc[p].pc = "prc_read"
    /\ proc' = [proc EXCEPT
                  ![p].pc = "done",
                  ![p].conns = Released(@),
                  ![p].result =
                     [kind |-> "success", error |-> "", code |-> NoCode,
                      referrerCreditsAdded |-> proc[p].referrerCredits,
                      refereeCreditsAdded |-> proc[p].refereeCredits,
                      codeUsesRemaining |->
                          MAX_USES_PER_CODE
                          - users[proc[p].referrer].referral_code_uses,
                      user |-> users[proc[p].user]]]
    /\ successes' = successes (+) SetToBag({<<proc[p].referrer, proc[p].user>>})
    /\ UNCHANGED <<db, calls, faults>>

(***************************************************************************)
(* statement_timeout: 5000.  A statement that waits for a lock is          *)
(* cancelled with an error; a wait for a lock of the waiting handler's own *)
(* open transaction can end no other way.                                  *)
(***************************************************************************)
WaitsForLock(p) ==
    \/ proc[p].pc \in {"rt_write", "ac_write"}
         /\ LockedForOuter(proc[p].user, p)
    \/ proc[p].pc = "prc_increment" /\ LockedForOuter(proc[p].referrer, p)
    \/ proc[p].pc = "prc_insert" /\ PairPendingElsewhere(p)
    \/ proc[p].pc = "gen_save" /\ LockedForOuter(proc[p].user, p)
    \/ proc[p].pc = "atu_write"
         /\ proc[p].atuUser \in DOMAIN users
         /\ LockedForInner(proc[p].atuUser, p)

\* The pool of the client on which handler p's waiting statement runs:
\* addCreditsToUser's own client, else the innermost client of the call.
StatementPool(p) ==
    IF proc[p].pc = "atu_write" THEN "credit"
    ELSE proc[p].conns[Len(proc[p].conns)]

StatementTimeout(p) ==
    /\ WaitsForLock(p)
    /\ StatementPool(p) \in PoolsWithTimeouts
    /\ proc' = [proc EXCEPT ![p] = FailedProc(@)]
    /\ UNCHANGED <<db, successes, calls, faults>>

\* The operations of the ledger: recordTranscription, addCredits and
\* addCreditsToUser called on its own.
LedgerStep(p) ==
    \/ \E phone \in Users, secs \in AudioSeconds :
           RecordTranscriptionBegin(p, phone, secs)
    \/ RecordTranscriptionWrite(p)
    \/ RecordTranscriptionCommit(p)
    \/ \E phone \in Users, credits \in PaymentCredits :
           AddCreditsBegin(p, phone, credits)
    \/ AddCreditsWrite(p)
    \/ AddCreditsCommit(p)
    \/ \E u \in Users, amount \in GrantAmounts, t \in GrantTypes :
           AddCreditsToUserCall(p, u, amount, t)

\* processReferralCode, with the addCreditsToUser calls it makes.
ReferralStep(p) ==
    \/ \E code \in CodeInputs, newUser \in Users :
           ProcessReferralCodeFind(p, code, newUser)
    \/ ProcessReferralCodeExists(p)
    \/ ProcessReferralCodeLimitReferrer(p)
    \/ ProcessReferralCodeLimitReferee(p)
    \/ ProcessReferralCodeInsert(p)
    \/ ProcessReferralCodeIncrement(p)
    \/ ProcessReferralCodeGrantReferrer(p)
    \/ ProcessReferralCodeGrantReferee(p)
    \/ ProcessReferralCodeCommit(p)
    \/ ProcessReferralCodeRead(p)
    \/ AddCreditsToUserWrite(p)
    \/ AddCreditsToUserCommit(p)
    \/ StatementTimeout(p)
    \/ Fault(p)

Next == \E p \in Procs : LedgerStep(p) \/ ReferralStep(p)

\* All operations, called by concurrent request handlers.
Spec == Init /\ [][Next]_vars

\* Only processReferralCode is called, by concurrent request handlers.
NextReferral == \E p \in Procs : ReferralStep(p)
SpecReferral == Init /\ [][NextReferral]_vars

\* Only processReferralCode is called, one call after the other.
NextReferralSeq == ReferralStep(1)
SpecReferralSeq == Init /\ [][NextReferralSeq]_vars

\* The credit-adding operations, addCredits and addCreditsToUser, called with
\* any integer amount: neither function looks at the amount before its
\* pool.connect().
AnyAmounts == {-5, 0, 5}

NextLedger ==
    \E p \in Procs :
       \/ \E phone \in Users, credits \in AnyAmounts :
              AddCreditsBegin(p, phone, credits)
       \/ AddCreditsWrite(p)
       \/ AddCreditsCommit(p)
       \/ \E u \in Users, amount \in AnyAmounts, t \in GrantTypes :
              AddCreditsToUserCall(p, u, amount, t)
       \/ AddCreditsToUserWrite(p)
       \/ AddCreditsToUserCommit(p)
       \/ StatementTimeout(p)
       \/ Fault(p)

SpecLedger == Init /\ [][NextLedger]_vars

(***************************************************************************)
(* generateReferralCodeForUser(userId): one pooled connection, no          *)
(* transaction, so its UPDATE commits at once.  users.referral_code is     *)
(* UNIQUE.                                                                 *)
(***************************************************************************)
GenerateReferralCodeForUserCall(p, userId) ==
    /\ CanStart(p)
    /\ calls' = calls + 1
    /\ proc' = [proc EXCEPT ![p] =
                  [IdleProc EXCEPT !.pc = "gen_select",
                                   !.op = "generateReferralCodeForUser",
                                   !.user = userId,
                                   !.ret = "done"]]
    /\ UNCHANGED <<db, successes, faults>>

\* pool.connect(); SELECT referral_code FROM users WHERE id = $1
GenerateReferralCodeForUserSelect(p) ==
    /\ proc[p].pc = "gen_select"
    /\ IF proc[p].user \in DOMAIN users
          /\ users[proc[p].user].referral_code # NoCode
       THEN /\ users' = users
            /\ proc' = [proc EXCEPT
                          ![p].pc = proc[p].ret,
                          ![p].result =
                             [NoResult EXCEPT
                                !.kind = "returned",
                                !.code = users[proc[p].user].referral_code]]
       ELSE /\ users' = users
            /\ proc' = [proc EXCEPT ![p].pc = "gen_check", ![p].attempts = 0,
                                    ![p].conns = Append(@, "referral")]
    /\ UNCHANGED <<transcriptions, payments, credit_transactions, referrals,
                   successes, calls, faults>>

\* One turn of while (!isUnique && attempts < MAX_ATTEMPTS): attempts++;
\* newCode = generateReferralCode(); SELECT COUNT(*) ... WHERE referral_code =
\* newCode.  After the loop, if (!isUnique) throw.
GenerateReferralCodeForUserAttempt(p, code) ==
    /\ proc[p].pc = "gen_check"
    /\ proc[p].attempts < MAX_ATTEMPTS
    /\ LET isUnique == CodeOwners(code) = {}
           tried == [proc[p] EXCEPT !.attempts = @ + 1, !.newCode = code]
       IN  proc' = [proc EXCEPT ![p] =
                      IF isUnique THEN [tried EXCEPT !.pc = "gen_save"]
                      ELSE IF tried.attempts < MAX_ATTEMPTS THEN tried
                      ELSE FailedProc(tried)]
    /\ UNCHANGED <<db, successes, calls, faults>>

\* UPDATE users SET referral_code = $1, referral_code_uses = 0 WHERE id = $2;
\* return newCode.  The UPDATE fails on the UNIQUE constraint when another
\* user has taken the code since the check, changes no row when the user
\* does not exist, and waits while another transaction holds the row.
GenerateReferralCodeForUserSaveUnchecked(p) ==
    /\ proc[p].pc = "gen_save"
    /\ ~LockedForOuter(proc[p].user, p)
    /\ users' =
         IF proc[p].user \in DOMAIN users
         THEN [users EXCEPT
                 ![proc[p].user].referral_code = proc[p].newCode,
                 ![proc[p].user].referral_code_uses = 0]
         ELSE users
    /\ proc' = [proc EXCEPT
                  ![p].pc = proc[p].ret,
                  ![p].conns = Released(@),
                  ![p].result =
                     [NoResult EXCEPT !.kind = "returned",
                                      !.code = proc[p].newCode]]
    /\ UNCHANGED <<transcriptions, payments, credit_transactions, referrals,
                   successes, calls, faults>>

GenerateReferralCodeForUserSave(p) ==
    /\ proc[p].pc = "gen_save"
    /\ IF CodeOwners(proc[p].newCode) \ {proc[p].user} # {}
       THEN /\ proc' = [proc EXCEPT ![p] = FailedProc(@)]
            /\ users' = users
       ELSE /\ ~LockedForOuter(proc[p].user, p)
            /\ users' =
                 IF proc[p].user \in DOMAIN users
                 THEN [users EXCEPT
                         ![proc[p].user].referral_code = proc[p].newCode,
                         ![proc[p].user].referral_code_uses = 0]
                 ELSE users
            /\ proc' = [proc EXCEPT
                          ![p].pc = proc[p].ret,
                          ![p].conns = Released(@),
                          ![p].result =
                             [NoResult EXCEPT !.kind = "returned",
                                              !.code = proc[p].newCode]]
    /\ UNCHANGED <<transcriptions, payments, credit_transactions, referrals,
                   successes, calls, faults>>

GenerateStep(p) ==
    \/ GenerateReferralCodeForUserSelect(p)
    \/ \E code \in GeneratedCodes : GenerateReferralCodeForUserAttempt(p, code)
    \/ GenerateReferralCodeForUserSave(p)

\* Only generateReferralCodeForUser is called, by concurrent request handlers.
NextCodes ==
    \E p \in Procs :
       \/ \E userId \in Users : GenerateReferralCodeForUserCall(p, userId)
       \/ GenerateStep(p)
       \/ Fault(p)

SpecCodes == Init /\ [][NextCodes]_vars

(***************************************************************************)
(* regenerateReferralCode(userId): the same loop and the same UPDATE as    *)
(* generateReferralCodeForUser, without the SELECT of the stored code; an  *)
(* error is rethrown.                                                      *)
(***************************************************************************)
RegenerateReferralCode(p, userId) ==
    /\ CanStart(p)
    /\ calls' = calls + 1
    /\ proc' = [proc EXCEPT ![p] =
                  [IdleProc EXCEPT !.pc = "gen_check",
                                   !.op = "regenerateReferralCode",
                                   !.user = userId,
                                   !.ret = "done",
                                   !.conns = <<"referral">>]]
    /\ UNCHANGED <<db, successes, faults>>

\* generateReferralCodeForUser and regenerateReferralCode, called by
\* concurrent request handlers.
NextRegenerate ==
    \E p \in Procs :
       \/ \E userId \in Users : GenerateReferralCodeForUserCall(p, userId)
       \/ \E userId \in Users : RegenerateReferralCode(p, userId)
       \/ GenerateStep(p)
       \/ Fault(p)

SpecRegenerate == Init /\ [][NextRegenerate]_vars

(***************************************************************************)
(* The voice-note flow: handleVoiceNote (controllers/transcription.js)     *)
(* with a Twilio client ("twilio") or without one ("api"), and the         *)
(* webhook route ("route").  All three check the balance first and then    *)
(* transcribe; they differ in where recordTranscription stands relative    *)
(* to the send of the reply.                                               *)
(***************************************************************************)
Flows == {"twilio", "api", "route"}

\* creditStatus = await checkUserCredits(userPhone): findOrCreateUser, then
\* canProceed: user.credits_remaining > 0; if (!canProceed) the no-credits
\* message is returned and nothing is transcribed.
HandleVoiceNote(p, phone, secs, flow) ==
    /\ CanStart(p)
    /\ calls' = calls + 1
    /\ users' = FindOrCreateUser(phone)
    /\ LET canProceed == users'[phone].credits_remaining > 0
       IN  proc' = [proc EXCEPT ![p] =
                      [IdleProc EXCEPT
                         !.op = "handleVoiceNote",
                         !.user = phone, !.secs = secs, !.flow = flow,
                         !.pc = IF ~canProceed THEN "done"
                                ELSE IF flow = "twilio" THEN "vn_send"
                                ELSE "vn_record",
                         !.result = IF ~canProceed
                                    THEN [NoResult EXCEPT !.kind = "no_credits"]
                                    ELSE NoResult]]
    /\ UNCHANGED <<transcriptions, payments, credit_transactions, referrals,
                   successes, faults>>

\* await sendMessages(...) / await twilioClient.messages.create(...): the
\* transport takes the reply (ok) or throws, and then the catch block answers
\* with an error.
VoiceNoteSend(p, ok) ==
    /\ proc[p].pc = "vn_send"
    /\ proc' = [proc EXCEPT
                  ![p].reply = IF ok THEN "sent" ELSE "failed",
                  ![p].pc = IF ok /\ proc[p].flow = "twilio" THEN "vn_record"
                            ELSE "done",
                  ![p].failedAt = IF ok THEN @ ELSE "vn_send",
                  ![p].result = IF ok THEN @ ELSE Thrown]
    /\ UNCHANGED <<db, successes, calls, faults>>

\* await recordTranscription(userPhone, costs.audioLengthSeconds, ...):
\* pool.connect(); BEGIN; findOrCreateUser(phoneNumber)
VoiceNoteRecord(p) ==
    /\ proc[p].pc = "vn_record"
    /\ users' = FindOrCreateUser(proc[p].user)
    /\ proc' = [proc EXCEPT ![p].pc = "rt_write", ![p].ret = "vn_recorded",
                            ![p].conns = Append(@, "database")]
    /\ UNCHANGED <<transcriptions, payments, credit_transactions, referrals,
                   successes, calls, faults>>

\* After recordTranscription has returned.  "twilio": updatedUserData =
\* dbResult.user; if (updatedUserData.credits_remaining === 1)
\* updatedUserData.referral_code || generateReferralCodeForUser(id); then the
\* empty TwiML response.  "api": formatSuccessResponse carries the reply.
\* "route": the reply is sent now.
VoiceNoteRecorded(p) ==
    /\ proc[p].pc = "vn_recorded"
    /\ proc' = [proc EXCEPT ![p] =
                  IF proc[p].flow = "twilio"
                  THEN IF proc[p].result.user.credits_remaining = 1
                          /\ proc[p].result.user.referral_code = NoCode
                       THEN [@ EXCEPT !.pc = "gen_select", !.ret = "done"]
                       ELSE [@ EXCEPT !.pc = "done"]
                  ELSE IF proc[p].flow = "api"
                  THEN [@ EXCEPT !.pc = "done", !.reply = "sent"]
                  ELSE [@ EXCEPT !.pc = "vn_send"]]
    /\ UNCHANGED <<db, successes, calls, faults>>

\* The store when voice notes arrive: user 1 with a code, user 2 without one
\* and with 3, 2, 1 or 0 credits left, user 3 not yet known.
LowBalanceUsed ==
    {InitialCredits - 3, InitialCredits - 2, InitialCredits - 1, InitialCredits}

InitVoice ==
    \E used \in LowBalanceUsed :
        /\ users = (1 :> UserRow(46, 0, CodeA, 0))
                   @@ (2 :> UserRow(used, 0, NoCode, 0))
        /\ transcriptions = (1 :> 46) @@ (2 :> used) @@ (3 :> 0)
        /\ payments = EmptyBag
        /\ credit_transactions = EmptyBag
        /\ referrals = {}
        /\ proc = [p \in Procs |-> IdleProc]
        /\ successes = EmptyBag
        /\ calls = 0
        /\ faults = 0

NextVoice ==
    \E p \in Procs :
       \/ \E phone \in Users, secs \in AudioSeconds, flow \in Flows :
              HandleVoiceNote(p, phone, secs, flow)
       \/ \E ok \in BOOLEAN : VoiceNoteSend(p, ok)
       \/ VoiceNoteRecord(p)
       \/ RecordTranscriptionWrite(p)
       \/ RecordTranscriptionCommit(p)
       \/ VoiceNoteRecorded(p)
       \/ GenerateStep(p)
       \/ StatementTimeout(p)
       \/ Fault(p)

\* Voice notes handled by concurrent request handlers.
SpecVoice == InitVoice /\ [][NextVoice]_vars

(***************************************************************************)
(* The functions of the database module at the grain of their pool         *)
(* clients.  checkUserCredits, getUserStats, recordTranscription and       *)
(* addCredits take a client with pool.connect() and, holding it, call      *)
(* findOrCreateUser, which takes a second client of the same pool.         *)
(***************************************************************************)
\* The pool size, scaled to the number of request handlers: the case in
\* which as many calls run as the pool has clients (max: 20, or the default
\* of 10 for helpers/database.js).
PoolMax == Cardinality(Procs)

Held(p, pl) ==
    Cardinality({i \in DOMAIN proc[p].conns : proc[p].conns[i] = pl})

RECURSIVE CheckedOut(_, _)
CheckedOut(ps, pl) ==
    IF ps = {} THEN 0
    ELSE LET q == CHOOSE x \in ps : TRUE
         IN  Held(q, pl) + CheckedOut(ps \ {q}, pl)

\* Has pool pl an idle client (or room for a new one)?
Free(pl) == CheckedOut(Procs, pl) < PoolMax

DatabasePools == {"database", "helpers"}
DatabaseOps ==
    {"findOrCreateUser", "checkUserCredits", "getUserStats",
     "recordTranscription", "addCredits"}

\* The call of function op of the database module, holding its client.
DatabaseCall(op, phone, pl, secs, credits) ==
    [IdleProc EXCEPT
       !.op = op, !.user = phone,
       !.secs = IF op = "recordTranscription" THEN secs ELSE 0,
       !.amount = IF op = "addCredits" THEN credits ELSE 0,
       !.conns = <<pl>>,
       !.pc = IF op = "findOrCreateUser" THEN "focu_query" ELSE "db_find"]

\* const client = await pool.connect(): the call goes on once the pool hands
\* it a client.
DatabaseConnect(p, op, phone, pl, secs, credits) ==
    /\ CanStart(p)
    /\ Free(pl)
    /\ calls' = calls + 1
    /\ proc' = [proc EXCEPT ![p] = DatabaseCall(op, phone, pl, secs, credits)]
    /\ UNCHANGED <<db, successes, faults>>

\* findOrCreateUser called on its own: SELECT * FROM users WHERE
\* phone_number = $1; if (result.rows.length > 0) return the row (finally
\* client.release()), else go on to the INSERT.
FindOrCreateUserQuery(p) ==
    /\ proc[p].pc = "focu_query"
    /\ proc' = [proc EXCEPT ![p] =
                  IF proc[p].user \in DOMAIN users
                  THEN [@ EXCEPT !.pc = "done",
                                 !.conns = Released(@),
                                 !.result = [NoResult EXCEPT
                                               !.kind = "returned",
                                               !.user = users[proc[p].user]]]
                  ELSE [@ EXCEPT !.pc = "focu_insert"]]
    /\ UNCHANGED <<db, successes, calls, faults>>

\* users.phone_number is UNIQUE: an INSERT of a phone number that has a row
\* is rejected with an error.
PhoneNumberTaken(phone) == phone \in DOMAIN users

\* INSERT INTO users (phone_number, country_code, credits_remaining,
\* free_trial_used, has_seen_intro) VALUES ($1, $2, 50, false, false)
\* RETURNING *; return { user, created: true }.  The statement has no ON
\* CONFLICT clause: its error is rethrown by the catch block.
FindOrCreateUserInsert(p) ==
    /\ proc[p].pc = "focu_insert"
    /\ IF PhoneNumberTaken(proc[p].user)
       THEN /\ users' = users
            /\ proc' = [proc EXCEPT ![p] = FailedProc(@)]
       ELSE /\ users' = FindOrCreateUser(proc[p].user)
            /\ proc' = [proc EXCEPT
                          ![p].pc = "done",
                          ![p].conns = Released(@),
                          ![p].eff = {<<"user", proc[p].user, 1>>},
                          ![p].result = [NoResult EXCEPT
                                           !.kind = "returned",
                                           !.user = NewUserRow]]
    /\ UNCHANGED <<transcriptions, payments, credit_transactions, referrals,
                   successes, calls, faults>>

\* const { user } = await findOrCreateUser(phoneNumber) inside a function
\* that holds a client: the callee's pool.connect() waits until the same
\* pool has a client for it, then it queries and releases that client.
NestedFindOrCreateUser(p) ==
    /\ proc[p].pc = "db_find"
    /\ Free(proc[p].conns[1])
    /\ users' = FindOrCreateUser(proc[p].user)
    /\ proc' = [proc EXCEPT
                  ![p].pc = IF proc[p].op = "recordTranscription" THEN "rt_write"
                            ELSE IF proc[p].op = "addCredits" THEN "ac_write"
                            ELSE "db_return",
                  ![p].conns = Released(Append(@, proc[p].conns[1])),
                  ![p].row = users'[proc[p].user]]
    /\ UNCHANGED <<transcriptions, payments, credit_transactions, referrals,
                   successes, calls, faults>>

\* connectionTimeoutMillis: 10000.  A pool.connect() that has waited this
\* long rejects; the exception leaves the function through its finally.
ConnectionTimeout(p) ==
    /\ proc[p].pc = "db_find"
    /\ ~Free(proc[p].conns[1])
    /\ proc[p].conns[1] \in PoolsWithTimeouts
    /\ proc' = [proc EXCEPT ![p] = FailedProc(@)]
    /\ UNCHANGED <<db, successes, calls, faults>>

\* checkUserCredits / getUserStats: return { ... }; finally client.release()
DatabaseReturn(p) ==
    /\ proc[p].pc = "db_return"
    /\ proc' = [proc EXCEPT
                  ![p].pc = "done",
                  ![p].conns = Released(@),
                  ![p].result = [NoResult EXCEPT !.kind = "returned",
                                                 !.user = proc[p].row]]
    /\ UNCHANGED <<db, successes, calls, faults>>

DatabaseStep(p) ==
    \/ \E op \in DatabaseOps, phone \in Users, pl \in DatabasePools,
          secs \in AudioSeconds, credits \in PaymentCredits :
           DatabaseConnect(p, op, phone, pl, secs, credits)
    \/ FindOrCreateUserQuery(p)
    \/ FindOrCreateUserInsert(p)
    \/ NestedFindOrCreateUser(p)
    \/ ConnectionTimeout(p)
    \/ DatabaseReturn(p)

\* The functions of the database module, called by concurrent request
\* handlers on a pool with as many clients as there are handlers.
NextPool ==
    \E p \in Procs :
       \/ DatabaseStep(p)
       \/ RecordTranscriptionWrite(p)
       \/ RecordTranscriptionCommit(p)
       \/ AddCreditsWrite(p)
       \/ AddCreditsCommit(p)
       \/ StatementTimeout(p)
       \/ Fault(p)

SpecPool == Init /\ [][NextPool]_vars

\* The steps that continue a call handler p is in.  node runs every
\* continuation whose await has settled, the pool serves a waiting
\* pool.connect() as soon as a client is free, and the timers of
\* connectionTimeoutMillis and statement_timeout fire: a continuation that
\* stays possible is taken.  Nothing obliges a client to send a request or
\* the store to fail.
PoolProgress(p) ==
    \/ FindOrCreateUserQuery(p)
    \/ FindOrCreateUserInsert(p)
    \/ NestedFindOrCreateUser(p)
    \/ ConnectionTimeout(p)
    \/ DatabaseReturn(p)
    \/ RecordTranscriptionWrite(p)
    \/ RecordTranscriptionCommit(p)
    \/ AddCreditsWrite(p)
    \/ AddCreditsCommit(p)
    \/ StatementTimeout(p)

SpecPoolFair == SpecPool /\ \A p \in Procs : WF_vars(PoolProgress(p))

\* Every operation that takes pool clients, called by concurrent request
\* handlers; recordTranscription and addCredits at the grain of their
\* clients.
NextCore ==
    \E p \in Procs :
       \/ RecordTranscriptionWrite(p)
       \/ RecordTranscriptionCommit(p)
       \/ AddCreditsWrite(p)
       \/ AddCreditsCommit(p)
       \/ \E u \in Users, amount \in GrantAmounts, t \in GrantTypes :
              AddCreditsToUserCall(p, u, amount, t)
       \/ ReferralStep(p)
       \/ \E userId \in Users : GenerateReferralCodeForUserCall(p, userId)
       \/ GenerateStep(p)
       \/ DatabaseStep(p)

SpecCore == Init /\ [][NextCore]_vars

(***************************************************************************)
(* Test mode: calls whose request carries isTestMode.  The functions of    *)
(* the referral service, the credit manager and the database module of     *)
(* routes/transcribe.js start with if (req && req.isTestMode) and return   *)
(* a canned value there; the functions of helpers/database.js take no req  *)
(* and run as always.                                                      *)
(***************************************************************************)
\* processReferralCode with req.isTestMode, lines 219-321: the format check,
\* then the branch on the test codes.
ProcessReferralCodeCanned(code) ==
    IF code = NoCode \/ Len(code) # CodeLength
    THEN ReferralResult("INVALID_CODE")
    ELSE IF code = TEST_CODES.VALID
    THEN [NoResult EXCEPT !.kind = "success",
                          !.referrerCreditsAdded = REFERRAL_CREDIT_AMOUNT,
                          !.refereeCreditsAdded = REFERRAL_CREDIT_AMOUNT,
                          !.codeUsesRemaining = MAX_USES_PER_CODE - 1]
    ELSE IF code = TEST_CODES.SELF_REFERRAL
    THEN ReferralResult("SELF_REFERRAL")
    ELSE IF code = TEST_CODES.ALREADY_USED
    THEN ReferralResult("ALREADY_REFERRED")
    ELSE IF code = TEST_CODES.MAXED_OUT
    THEN ReferralResult("CODE_MAXED_OUT")
    ELSE IF code = TEST_CODES.LIMIT_REACHED
    THEN [ReferralResult("REFERRAL_LIMIT_REACHED")
            EXCEPT !.referrerCreditsAdded = REFERRAL_CREDIT_AMOUNT]
    ELSE ReferralResult("INVALID_CODE")

\* A call that returns a canned value at once.
Canned(op, result) ==
    [IdleProc EXCEPT !.pc = "done", !.op = op, !.testMode = TRUE,
                     !.result = result]

\* A call made with a test-mode request; start is where its first step
\* leaves the handler.
TestModeCall(p, start) ==
    /\ CanStart(p)
    /\ calls' = calls + 1
    /\ proc' = [proc EXCEPT ![p] = start]
    /\ UNCHANGED <<db, successes, faults>>

ProcessReferralCodeTestMode(p, code, newUser) ==
    TestModeCall(p, [Canned("processReferralCode",
                            ProcessReferralCodeCanned(code))
                       EXCEPT !.code = code, !.user = newUser])

\* return TEST_CODES.VALID when req.body.testGenerateCode === 'true', else
\* return 'ABC125'
GenerateReferralCodeForUserTestMode(p, userId, testGenerateCode) ==
    TestModeCall(p, [Canned("generateReferralCodeForUser",
                            [NoResult EXCEPT
                               !.kind = "returned",
                               !.code = IF testGenerateCode
                                        THEN TEST_CODES.VALID ELSE CodeA])
                       EXCEPT !.user = userId])

\* return { user: { id, credits_remaining: 50 + creditAmount }, ... }
AddCreditsToUserTestMode(p, userId, creditAmount) ==
    TestModeCall(p, [Canned("addCreditsToUser",
                            [NoResult EXCEPT
                               !.kind = "returned",
                               !.user = [NoRow EXCEPT
                                           !.credits_remaining =
                                              InitialCredits + creditAmount]])
                       EXCEPT !.atuUser = userId, !.atuAmount = creditAmount])

\* The mock of checkReferralCreditLimit (15 referral credits so far).
CheckReferralCreditLimitTestMode(p, userId) ==
    TestModeCall(p, [Canned("checkReferralCreditLimit",
                            [NoResult EXCEPT !.kind = "returned"])
                       EXCEPT !.user = userId])

\* The mocks of the database module of routes/transcribe.js: a user with 50
\* credits, and after recordTranscription 49 credits and one use.
DatabaseCanned(op, secs) ==
    [NoResult EXCEPT
       !.kind = "returned",
       !.user = IF op = "recordTranscription"
                THEN [NoRow EXCEPT !.credits_remaining = InitialCredits - 1,
                                   !.usage_count = 1, !.total_seconds = secs]
                ELSE [NoRow EXCEPT !.credits_remaining = InitialCredits]]

TestModeOps == {"findOrCreateUser", "checkUserCredits", "recordTranscription"}

\* A function of the database module called with a test-mode request: the
\* mock, or for helpers/database.js the function itself (pool.connect()).
DatabaseTestMode(p, op, phone, pl, secs) ==
    IF pl = "helpers"
    THEN /\ Free(pl)
         /\ TestModeCall(p, [DatabaseCall(op, phone, pl, secs, 0)
                               EXCEPT !.testMode = TRUE])
    ELSE TestModeCall(p, [Canned(op, DatabaseCanned(op, secs))
                            EXCEPT !.user = phone])

TestCodeInputs == MagicCodes \cup {CodeA, CodeShort}

NextTestMode ==
    \E p \in Procs :
       \/ \E code \in TestCodeInputs, newUser \in Users :
              ProcessReferralCodeTestMode(p, code, newUser)
       \/ \E userId \in Users, testGenerateCode \in BOOLEAN :
              GenerateReferralCodeForUserTestMode(p, userId, testGenerateCode)
       \/ \E userId \in Users, creditAmount \in GrantAmounts :
              AddCreditsToUserTestMode(p, userId, creditAmount)
       \/ \E userId \in Users : CheckReferralCreditLimitTestMode(p, userId)
       \/ \E op \in TestModeOps, phone \in Users, pl \in DatabasePools,
             secs \in AudioSeconds :
              DatabaseTestMode(p, op, phone, pl, secs)
       \/ FindOrCreateUserQuery(p)
       \/ NestedFindOrCreateUser(p)
       \/ DatabaseReturn(p)
       \/ RecordTranscriptionWrite(p)
       \/ RecordTranscriptionCommit(p)

\* Every call is made in test mode.
SpecTestMode == Init /\ [][NextTestMode]_vars


(***************************************************************************)
(* extractReferralCodeFromMessage(message): strings are sequences of       *)
(* characters; null is the empty sequence (a match is never empty).        *)
(***************************************************************************)
\* const ALLOWED_CHARS = "ABCDEFGHJKMNPRTUVWXY01258"
ALLOWED_CHARS ==
    <<"A", "B", "C", "D", "E", "F", "G", "H", "J", "K", "M", "N", "P", "R",
      "T", "U", "V", "W", "X", "Y", "0", "1", "2", "5", "8">>

\* The {6} of the pattern.
PatternLength == 6

LowerCaseLetters ==
    <<"a", "b", "c", "d", "e", "f", "g", "h", "i", "j", "k", "l", "m", "n",
      "o", "p", "q", "r", "s", "t", "u", "v", "w", "x", "y", "z">>

UpperCaseLetters ==
    <<"A", "B", "C", "D", "E", "F", "G", "H", "I", "J", "K", "L", "M", "N",
      "O", "P", "Q", "R", "S", "T", "U", "V", "W", "X", "Y", "Z">>

\* String.prototype.toUpperCase()
ToUpperCase(s) ==
    [i \in 1..Len(s) |->
       IF \E k \in 1..Len(LowerCaseLetters) : LowerCaseLetters[k] = s[i]
       THEN UpperCaseLetters[CHOOSE k \in 1..Len(LowerCaseLetters) :
                               LowerCaseLetters[k] = s[i]]
       ELSE s[i]]

\* String.prototype.trim()
Trim(s) ==
    LET inked == {i \in 1..Len(s) : s[i] # " "}
    IN  IF inked = {} THEN << >>
        ELSE SubSeq(s, CHOOSE i \in inked : \A j \in inked : i <= j,
                       CHOOSE i \in inked : \A j \in inked : i >= j)

\* cleanedMessage.match(new RegExp(`[${ALLOWED_CHARS}]{6}`)): the leftmost
\* six consecutive characters of ALLOWED_CHARS, or null.
MatchPattern(s) ==
    LET allowed == {ALLOWED_CHARS[k] : k \in 1..Len(ALLOWED_CHARS)}
        starts == {i \in 1..(Len(s) - PatternLength + 1) :
                     \A j \in i..(i + PatternLength - 1) : s[j] \in allowed}
    IN  IF starts = {} THEN << >>
        ELSE LET first == CHOOSE i \in starts : \A j \in starts : i <= j
             IN  SubSeq(s, first, first + PatternLength - 1)

ExtractReferralCodeFromMessage(message) ==
    IF message = << >> THEN << >>
    ELSE LET cleanedMessage == ToUpperCase(Trim(message))
         IN  IF cleanedMessage \in MagicCodes THEN cleanedMessage
             ELSE MatchPattern(cleanedMessage)

\* Bodies of incoming text messages.
MsgTranscribe ==
    <<"h", "e", "y", " ", "c", "a", "n", " ", "y", "o", "u", " ", "t", "r",
      "a", "n", "s", "c", "r", "i", "b", "e", " ", "t", "h", "i", "s", " ",
      "T", "E", "S", "T", "1", "2", "3", " ", "t", "h", "a", "n", "k", "s">>

MsgNormal ==
    <<"j", "u", "s", "t", " ", "a", " ", "n", "o", "r", "m", "a", "l", " ",
      "m", "e", "s", "s", "a", "g", "e">>

MsgTestCode ==
    <<"T", "E", "S", "T", "1", "2", "3">>

MsgTestCodePadded ==
    <<" ", "t", "e", "s", "t", "1", "2", "3", " ">>

MsgLimitCode ==
    <<"L", "I", "M", "I", "T", "1", "2", "3">>

MsgCode ==
    <<"A", "B", "C", "1", "2", "5">>

MsgCodeInText ==
    <<"m", "y", " ", "c", "o", "d", "e", " ", "i", "s", " ", "a", "b", "c",
      "1", "2", "5", " ", "o", "k">>

MsgTwoCodes ==
    <<"x", "y", "w", "2", "5", "8", " ", "a", "n", "d", " ", "A", "B", "C",
      "1", "2", "5">>

MsgLongRun ==
    <<"A", "B", "C", "1", "2", "5", "8", "X">>

MsgRemember ==
    <<"p", "l", "e", "a", "s", "e", " ", "r", "e", "m", "e", "m", "b", "e",
      "r">>

MsgBlank ==
    <<" ", " ">>

Messages ==
    {MsgTranscribe, MsgNormal, MsgTestCode, MsgTestCodePadded, MsgLimitCode,
     MsgCode, MsgCodeInText, MsgTwoCodes, MsgLongRun, MsgRemember, MsgBlank, << >>}

\* handleVoiceNote on a text message (numMedia === 0 && event.Body):
\* potentialReferralCode = extractReferralCodeFromMessage(event.Body).
ExtractCall(p, message) ==
    /\ CanStart(p)
    /\ calls' = calls + 1
    /\ proc' = [proc EXCEPT ![p] =
                  [IdleProc EXCEPT
                     !.pc = "done",
                     !.op = "extractReferralCodeFromMessage",
                     !.message = message,
                     !.result =
                        [NoResult EXCEPT
                           !.kind = "returned",
                           !.code = ExtractReferralCodeFromMessage(message)]]]
    /\ UNCHANGED <<db, successes, faults>>

NextExtract == \E p \in Procs, message \in Messages : ExtractCall(p, message)

SpecExtract == Init /\ [][NextExtract]_vars

(***************************************************************************)
(* Properties.                                                             *)
(***************************************************************************)
Done(p, op) == proc[p].pc = "done" /\ proc[p].op = op

\* C1: no user's credits_remaining is ever below 0, also when
\* recordTranscription runs for a user whose balance is already 0.
C1_NoNegativeBalance ==
    \A u \in DOMAIN users : users[u].credits_remaining >= 0

ReferralTypes ==
    {CREDIT_OPERATIONS.REFERRAL_BONUS, CREDIT_OPERATIONS.REFERRAL_RECEIVED}

IsSuccess(p) == Done(p, "processReferralCode") /\ proc[p].result.kind = "success"

\* The checks of a finished processReferralCode call all passed: it found a
\* referrer with fewer than 5 uses, other than the caller, and no referral
\* record of the pair.
ChecksPassed(p) ==
    /\ Done(p, "processReferralCode")
    /\ proc[p].referrer # 0
    /\ ~proc[p].before.pairExisted

\* C2: for all sequences of processReferralCode calls, overlapping ones
\* included, every user's referral_bonus + referral_received total is at
\* most 25.
C2_LifetimeCap ==
    \A u \in DOMAIN users : ReferralTotal(u) <= LIFETIME_REFERRAL_LIMIT

\* C3: concurrent redemptions of one code are not double-counted: no
\* referral_code_uses exceeds 5, and of two overlapping redemptions that both
\* found the code at 4 uses at most one returns success.
C3_PerCodeCapConcurrent ==
    /\ \A u \in DOMAIN users : users[u].referral_code_uses <= MAX_USES_PER_CODE
    /\ \A p, q \in Procs :
          (p # q /\ IsSuccess(p) /\ IsSuccess(q)
             /\ proc[p].referrer = proc[q].referrer)
          => ~(proc[p].before.referrerUses = 4 /\ proc[q].before.referrerUses = 4)

\* Credits granted for the pair (referrer, referee): the referrer's
\* referral_bonus rows naming the referee and the referee's referral_received
\* rows naming the referrer.
PairCredits(referrer, referee) ==
    SumAmounts({r \in BagToSet(credit_transactions) :
                   \/ /\ r.user_id = referrer
                      /\ r.operation_type = CREDIT_OPERATIONS.REFERRAL_BONUS
                      /\ r.metadata = referee
                   \/ /\ r.user_id = referee
                      /\ r.operation_type = CREDIT_OPERATIONS.REFERRAL_RECEIVED
                      /\ r.metadata = referrer},
               credit_transactions)

\* C4, first clause: a pair's redemption returns success at most once.
C4_SuccessAtMostOnce ==
    \A pair \in BagToSet(successes) : CopiesIn(pair, successes) <= 1

\* C4, second clause: an attempt made after the pair's successful redemption
\* returns ALREADY_REFERRED.
C4_LaterAttemptsAlreadyReferred ==
    \A p \in Procs :
       (/\ Done(p, "processReferralCode")
        /\ proc[p].result.kind # "success"
        /\ \E o \in DOMAIN users :
              /\ users[o].referral_code = proc[p].code
              /\ BagIn(<<o, proc[p].user>>, successes))
       => proc[p].result.error = "ALREADY_REFERRED"

\* C4, third clause: the credits granted for a pair never exceed what its
\* single successful redemption granted (the amounts of its referral record).
C4_PairCreditsOnce ==
    \A pair \in BagToSet(successes) :
       \A r \in referrals :
          (r.referrer_id = pair[1] /\ r.referee_id = pair[2])
          => PairCredits(pair[1], pair[2])
               <= r.referrer_credits + r.referee_credits

\* C4: for a fixed code and redeeming user the result is success at most
\* once, every attempt after the successful one returns ALREADY_REFERRED, and
\* the credits granted for the pair never exceed the single redemption's.
C4_Idempotence ==
    /\ C4_SuccessAtMostOnce
    /\ C4_LaterAttemptsAlreadyReferred
    /\ C4_PairCreditsOnce

\* The steps after the checks at which C5 lets a redemption fail.
MutationSteps ==
    {"prc_insert", "prc_increment", "atu_write", "atu_commit", "prc_commit"}

\* C5: a redemption that fails at a step after the checks (the insert, the
\* increment, a credit grant or the COMMIT) leaves none of its effects in the
\* store.
C5_AllOrNothing ==
    \A p \in Procs :
       (/\ Done(p, "processReferralCode")
        /\ proc[p].failedAt \in MutationSteps)
       => proc[p].eff = {}

\* A call of processReferralCode(code, newUser) starts at handler p.
StartsRedemption(p) ==
    /\ proc[p].pc \in {"idle", "done"}
    /\ proc'[p] # proc[p]
    /\ proc'[p].op = "processReferralCode"
    /\ calls' = calls + 1

\* C6: for redemptions that do not overlap, a code is redeemed successfully
\* by at most 5 users: referral_code_uses never exceeds 5, each committed
\* redemption raises the owner's referral_code_uses by exactly 1, and a
\* redemption attempted once referral_code_uses is 5 returns CODE_MAXED_OUT.
C6_PerCodeCap ==
    /\ [](\A u \in DOMAIN users :
             users[u].referral_code_uses <= MAX_USES_PER_CODE)
    /\ [][\A p \in Procs :
            /\ (proc[p].pc = "prc_commit" /\ proc'[p].pc = "prc_read")
               => /\ users'[proc[p].referrer].referral_code_uses
                       = users[proc[p].referrer].referral_code_uses + 1
                  /\ \A u \in DOMAIN users \ {proc[p].referrer} :
                        users'[u].referral_code_uses
                          = users[u].referral_code_uses
            /\ (/\ StartsRedemption(p)
                /\ \E o \in DOMAIN users :
                      /\ users[o].referral_code = proc'[p].code
                      /\ users[o].referral_code_uses = MAX_USES_PER_CODE)
               => /\ proc'[p].pc = "done"
                  /\ proc'[p].result.error = "CODE_MAXED_OUT"
       ]_vars

\* A redemption took a code to 5 uses and a further user was then refused.
C6_Witness ==
    /\ Done(1, "processReferralCode")
    /\ proc[1].result.error = "CODE_MAXED_OUT"
    /\ \E o \in DOMAIN users, r \in DOMAIN users :
          /\ users[o].referral_code = proc[1].code
          /\ users[o].referral_code_uses = MAX_USES_PER_CODE
          /\ BagIn(<<o, r>>, successes)
          /\ r # proc[1].user
          /\ o # proc[1].user

\* C7 as stated: a call with a code the caller owns returns SELF_REFERRAL,
\* whatever the code's referral_code_uses, and changes nothing.
C7_SelfReferralAlways ==
    \A p \in Procs :
       (/\ Done(p, "processReferralCode")
        /\ proc[p].code # NoCode
        /\ users[proc[p].user].referral_code = proc[p].code)
       => /\ proc[p].result.error = "SELF_REFERRAL"
          /\ proc[p].eff = {}

\* C7 as amended: a call with a code the caller owns ends at once, changes
\* nothing in the store, and returns SELF_REFERRAL when the code has fewer
\* than 5 uses and CODE_MAXED_OUT when it has 5 or more.
C7_SelfReferral ==
    [][\A p \in Procs :
         (/\ StartsRedemption(p)
          /\ proc'[p].code # NoCode
          /\ proc'[p].user \in DOMAIN users
          /\ users[proc'[p].user].referral_code = proc'[p].code)
         => /\ proc'[p].pc = "done"
            /\ proc'[p].result.kind = "failure"
            /\ proc'[p].result.error =
                 (IF users[proc'[p].user].referral_code_uses
                       < MAX_USES_PER_CODE
                  THEN "SELF_REFERRAL" ELSE "CODE_MAXED_OUT")
            /\ UNCHANGED db
      ]_vars

\* A user has submitted the code they own and got SELF_REFERRAL.
C7_Witness ==
    \E p \in Procs :
       /\ Done(p, "processReferralCode")
       /\ users[proc[p].user].referral_code = proc[p].code
       /\ proc[p].result.error = "SELF_REFERRAL"

\* C8: with no store error, when the owner and the redeemer both have 0
\* referral credits and the checks pass, the call returns success with 5
\* credits added on each side, both balances are 5 higher than before, and
\* codeUsesRemaining is 5 minus the owner's updated referral_code_uses.
C8_Scenario1 ==
    \A p \in Procs :
       (/\ ChecksPassed(p)
        /\ faults = 0
        /\ proc[p].before.referrerTotal = 0
        /\ proc[p].before.refereeTotal = 0)
       => /\ proc[p].result.kind = "success"
          /\ proc[p].result.referrerCreditsAdded = REFERRAL_CREDIT_AMOUNT
          /\ proc[p].result.refereeCreditsAdded = REFERRAL_CREDIT_AMOUNT
          /\ users[proc[p].referrer].credits_remaining
               = proc[p].before.referrerBalance + REFERRAL_CREDIT_AMOUNT
          /\ users[proc[p].user].credits_remaining
               = proc[p].before.refereeBalance + REFERRAL_CREDIT_AMOUNT
          /\ proc[p].result.codeUsesRemaining
               = MAX_USES_PER_CODE
                 - users[proc[p].referrer].referral_code_uses

\* C9: with no store error, a redemption whose checks pass succeeds and
\* grants each side min(5, 25 - that side's referral total), independently
\* of the other side, and records those amounts in the referral record.
C9_IndependentClamp ==
    \A p \in Procs :
       (ChecksPassed(p) /\ faults = 0)
       => LET rc == Min(REFERRAL_CREDIT_AMOUNT,
                        LIFETIME_REFERRAL_LIMIT - proc[p].before.referrerTotal)
              ec == Min(REFERRAL_CREDIT_AMOUNT,
                        LIFETIME_REFERRAL_LIMIT - proc[p].before.refereeTotal)
          IN  /\ proc[p].result.kind = "success"
              /\ proc[p].result.referrerCreditsAdded = rc
              /\ proc[p].result.refereeCreditsAdded = ec
              /\ Referral(proc[p].referrer, proc[p].user, rc, ec) \in referrals
              /\ users[proc[p].referrer].credits_remaining
                   = proc[p].before.referrerBalance + rc
              /\ users[proc[p].user].credits_remaining
                   = proc[p].before.refereeBalance + ec

C11_AddCreditsToUserAtomic ==
    [][\A p \in Procs :
         LET u == proc[p].atuUser
             amount == proc[p].atuAmount
         IN  /\ (proc[p].pc = "atu_commit" /\ proc'[p].pc = proc[p].ret
                    /\ proc'[p].failedAt = "")
                 => /\ credit_transactions' =
                         credit_transactions
                         (+) SetToBag({[user_id |-> u, credits_amount |-> amount,
                                        operation_type |-> proc[p].atuType,
                                        metadata |-> proc[p].atuMeta]})
                    /\ DOMAIN users' = DOMAIN users
                    /\ users'[u].credits_remaining
                         = users[u].credits_remaining + amount
                    /\ \A v \in DOMAIN users \ {u} : users'[v] = users[v]
                    /\ UNCHANGED <<transcriptions, payments, referrals>>
             /\ (proc[p].pc = "atu_write" /\ proc'[p] # proc[p])
                 => /\ UNCHANGED db
                    /\ u \notin DOMAIN users => proc'[p].failedAt = "atu_write"
             /\ (proc[p].pc \in {"atu_write", "atu_commit"}
                    /\ proc'[p].failedAt \in {"atu_write", "atu_commit"})
                 => /\ UNCHANGED db
                    /\ proc'[p].pc = "done"
                    /\ proc[p].op = "addCreditsToUser"
                         => proc'[p].result.kind = "thrown"
      ]_vars

\* addCreditsToUser was called for a user id that does not exist and threw.
C11_Witness ==
    \E p \in Procs :
       /\ Done(p, "addCreditsToUser")
       /\ proc[p].atuUser \notin DOMAIN users
       /\ proc[p].result.kind = "thrown"
       /\ credit_transactions = EmptyBag

\* C12: addCreditsToUser and addCredits called with a zero or negative
\* amount are rejected before any store access: no credit_transactions row
\* and no payment row with such an amount is ever inserted.
C12_NonPositiveRejected ==
    /\ \A r \in BagToSet(credit_transactions) : r.credits_amount > 0
    /\ \A r \in BagToSet(payments) : r.credits_purchased > 0

\* C13: when several rejection conditions hold at once, processReferralCode
\* reports the first in the order INVALID_CODE (no user owns the code),
\* CODE_MAXED_OUT (owner's referral_code_uses >= 5), SELF_REFERRAL (owner is
\* the redeemer), ALREADY_REFERRED (a referral record of the pair exists);
\* the credit limits are read only when none of the four holds.
C13_ValidationOrder ==
    [][\A p \in Procs :
         /\ (StartsRedemption(p) /\ proc'[p].user \in DOMAIN users)
             => LET code == proc'[p].code
                    owners == {o \in DOMAIN users :
                                  users[o].referral_code = code}
                    exists == code # NoCode /\ Len(code) = 6 /\ owners # {}
                    maxed == \E o \in owners : users[o].referral_code_uses >= 5
                    self == proc'[p].user \in owners
                    rejected(err) == /\ proc'[p].pc = "done"
                                     /\ proc'[p].result.kind = "failure"
                                     /\ proc'[p].result.error = err
                IN  IF ~exists THEN rejected("INVALID_CODE")
                    ELSE IF maxed THEN rejected("CODE_MAXED_OUT")
                    ELSE IF self THEN rejected("SELF_REFERRAL")
                    ELSE /\ proc'[p].pc = "prc_exists"
                         /\ proc'[p].referrer \in owners
         /\ (proc[p].pc = "prc_exists" /\ proc'[p] # proc[p])
             => IF \E r \in referrals : /\ r.referrer_id = proc[p].referrer
                                         /\ r.referee_id = proc[p].user
                THEN /\ proc'[p].pc = "done"
                     /\ proc'[p].result.error = "ALREADY_REFERRED"
                ELSE proc'[p].pc = "prc_limit_referrer"
         /\ (proc'[p].pc = "prc_limit_referrer" /\ proc'[p] # proc[p])
             => proc[p].pc = "prc_exists"
         /\ (proc'[p].referrerCredits # proc[p].referrerCredits
               \/ proc'[p].refereeCredits # proc[p].refereeCredits)
             => \/ proc[p].pc \in {"prc_limit_referrer", "prc_limit_referee"}
                \/ proc[p].pc \in {"idle", "done"}
      ]_vars

\* A redeemer who already has a referral record with the owner of a code at
\* 5 uses was answered CODE_MAXED_OUT: two conditions held at once.
C13_Witness ==
    \E p \in Procs :
       /\ Done(p, "processReferralCode")
       /\ proc[p].result.error = "CODE_MAXED_OUT"
       /\ \E o \in DOMAIN users :
             /\ users[o].referral_code = proc[p].code
             /\ ReferralExists(o, proc[p].user)

\* The four rejections of processReferralCode.
Rejections ==
    {"INVALID_CODE", "CODE_MAXED_OUT", "SELF_REFERRAL", "ALREADY_REFERRED"}

\* C14: a processReferralCode call that ends in INVALID_CODE,
\* CODE_MAXED_OUT, SELF_REFERRAL or ALREADY_REFERRED leaves the store
\* unchanged: no step the call takes up to the rejection changes a user row,
\* a referral record or a credit transaction.
C14_RejectionChangesNothing ==
    [][\A p \in Procs :
         /\ StartsRedemption(p) => UNCHANGED db
         /\ (/\ proc'[p] # proc[p]
             /\ proc'[p].op = "processReferralCode"
             /\ proc'[p].pc = "done"
             /\ proc'[p].result.error \in Rejections)
            => /\ UNCHANGED db
               /\ proc'[p].eff = {}
               /\ proc[p].pc \in {"idle", "done", "prc_exists"}
      ]_vars

\* A redemption was rejected with ALREADY_REFERRED after the pair's referral
\* record had been committed.
C14_Witness ==
    \E p \in Procs :
       /\ Done(p, "processReferralCode")
       /\ proc[p].result.error = "ALREADY_REFERRED"
       /\ ReferralExists(proc[p].referrer, proc[p].user)

\* A call of generateReferralCodeForUser by handler p returns in this step.
GenerateReturns(p) ==
    /\ proc[p].op = "generateReferralCodeForUser"
    /\ proc[p].pc \in GeneratePoints
    /\ proc'[p].pc = "done"

\* C16: generateReferralCodeForUser is idempotent: a call for a user who has
\* a stored referral code returns that code and changes neither
\* referral_code nor referral_code_uses, so repeated calls for the user
\* return the same code.
C16_Idempotent ==
    [][\A p \in Procs :
          /\ GenerateReturns(p)
          /\ proc[p].pc = "gen_select"
          /\ proc[p].user \in DOMAIN users
          /\ users[proc[p].user].referral_code # NoCode
          => /\ proc'[p].result.kind = "returned"
             /\ proc'[p].result.code = users[proc[p].user].referral_code
             /\ users' = users]_vars

\* C17: every value generateReferralCodeForUser returns as a code is the
\* code stored for that user (with referral_code_uses = 0 when the call
\* stored it), found within MAX_ATTEMPTS attempts; when every attempt
\* collides or the store fails, nothing is stored and the caller gets a
\* failure, not a code.
C17_ReturnedCodeIsStored ==
    [][\A p \in Procs :
          /\ GenerateReturns(p)
          /\ \/ proc[p].pc # "gen_select"
             \/ proc[p].user \notin DOMAIN users
             \/ users[proc[p].user].referral_code = NoCode
          => /\ proc'[p].attempts <= MAX_ATTEMPTS
             /\ IF proc'[p].result.kind = "returned"
                THEN /\ proc[p].user \in DOMAIN users'
                     /\ users'[proc[p].user].referral_code
                          = proc'[p].result.code
                     /\ proc[p].pc = "gen_save"
                          => users'[proc[p].user].referral_code_uses = 0
                ELSE users' = users]_vars

\* C15: in the voice-note flow the credit decrement of a transcription
\* happens only after a successful send of its reply, and an execution whose
\* reply is not sent or whose send fails consumes no credit.
C15_DecrementAfterReply ==
    [][\A p \in Procs :
          proc'[p].op = "handleVoiceNote"
          => /\ proc[p].pc = "rt_commit" /\ proc'[p].pc = "vn_recorded"
                  => proc[p].reply = "sent"
             /\ proc'[p].pc = "done" /\ proc'[p].reply # "sent"
                  => proc'[p].eff = {}]_vars

C20_EveryCallReturns ==
    \A p \in Procs :
        (proc[p].pc \notin {"idle", "done"}) ~> (proc[p].pc = "done")

\* C18: with the test-mode flag on the call context the core operations
\* return before any store access, and processReferralCode returns the
\* canned outcome of each magic code: TEST123 success, SELF123
\* SELF_REFERRAL, USED123 ALREADY_REFERRED, FULL123 CODE_MAXED_OUT, LIMIT123
\* REFERRAL_LIMIT_REACHED.
C18_TestModeShortCircuits ==
    [][\A p \in Procs :
          proc'[p] # proc[p] /\ proc'[p].testMode
          => /\ UNCHANGED db
             /\ proc'[p].conns = << >>
             /\ proc'[p].pc = "done"
             /\ proc'[p].op = "processReferralCode"
                => LET code == proc'[p].code
                       result == proc'[p].result
                   IN  /\ code = TEST_CODES.VALID => result.kind = "success"
                       /\ code = TEST_CODES.SELF_REFERRAL
                            => result.error = "SELF_REFERRAL"
                       /\ code = TEST_CODES.ALREADY_USED
                            => result.error = "ALREADY_REFERRED"
                       /\ code = TEST_CODES.MAXED_OUT
                            => result.error = "CODE_MAXED_OUT"
                       /\ code = TEST_CODES.LIMIT_REACHED
                            => result.error = "REFERRAL_LIMIT_REACHED"]_vars

\* C21: when the same user submits the same code in two overlapping calls,
\* at most one referral record of the pair exists, credits are granted for
\* the pair at most once, and the attempt that loses at the INSERT (it waited
\* for the other's transaction or hit the unique constraint) is reported as
\* ALREADY_REFERRED or CODE_MAXED_OUT.
C21_OverlappingSamePair ==
    faults = 0 =>
    /\ \A r, t \in referrals :
          (r.referrer_id = t.referrer_id /\ r.referee_id = t.referee_id)
          => r = t
    /\ \A r \in referrals :
          PairCredits(r.referrer_id, r.referee_id)
            <= r.referrer_credits + r.referee_credits
    /\ \A p, q \in Procs :
          (/\ p # q
           /\ ChecksPassed(p) /\ ChecksPassed(q)
           /\ proc[p].code = proc[q].code /\ proc[p].user = proc[q].user
           /\ proc[q].failedAt = "prc_insert"
           /\ IsSuccess(p))
          => proc[q].result.error \in {"ALREADY_REFERRED", "CODE_MAXED_OUT"}

\* C22: no two users hold the same referral code, whatever the sequence of
\* generateReferralCodeForUser and regenerateReferralCode calls, also when
\* two overlapping calls for different users draw the same code.
C22_CodesUnique ==
    \A u, v \in DOMAIN users :
       (u # v /\ users[u].referral_code # NoCode)
       => users[u].referral_code # users[v].referral_code

\* Two overlapping calls for different users drew the same code and both
\* passed the uniqueness check; one stored it, the other failed at the UPDATE.
C22_Witness ==
    /\ faults = 0
    /\ \E p, q \in Procs :
          /\ p # q
          /\ proc[p].user # proc[q].user
          /\ proc[p].newCode # NoCode
          /\ proc[p].newCode = proc[q].newCode
          /\ proc[p].pc = "done" /\ proc[p].failedAt = ""
          /\ proc[p].user \in DOMAIN users
          /\ users[proc[p].user].referral_code = proc[p].newCode
          /\ proc[q].user \in DOMAIN users
          /\ proc[q].pc = "done" /\ proc[q].failedAt = "gen_save"

\* C23: extractReferralCodeFromMessage returns "TEST123" for the message
\* "hey can you transcribe this TEST123 thanks" and null for "just a normal
\* message".
C23_ExtractExamples ==
    \A p \in Procs :
       (proc[p].op = "extractReferralCodeFromMessage" /\ proc[p].pc = "done")
       => /\ proc[p].message = MsgTranscribe
               => proc[p].result.code = TEST_CODES.VALID
          /\ proc[p].message = MsgNormal => proc[p].result.code = NoCode

\* C24: checkUserCredits is read-only: no step of a checkUserCredits call
\* creates or modifies a user row or any other row, also for a phone number
\* that has no row yet.
C24_CheckUserCreditsReadOnly ==
    [][\A p \in Procs :
          (proc[p].op = "checkUserCredits" /\ proc'[p] # proc[p])
          => db' = db]_vars

\* C25: the addCreditsToUser call of a redemption never has to wait for a
\* row lock held by the redemption's own open transaction, so that with no
\* store error a redemption whose checks pass is not ended by the statement
\* timeout at a credit grant.
C25_NoSelfLock ==
    \A p \in Procs :
       /\ (proc[p].op = "processReferralCode" /\ proc[p].pc = "atu_write")
          => proc[p].atuUser \notin OuterLocks(p)
       /\ (ChecksPassed(p) /\ faults = 0)
          => proc[p].failedAt # "atu_write"

\* C26: a processReferralCode call that returns a failure has left nothing in
\* the store: a rejection by a check and a failure of a read issued after
\* COMMIT (PROCESSING_ERROR) both come with no referral record, counter
\* increment or credit grant of that call.
C26_FailureMeansNothingCommitted ==
    \A p \in Procs :
       (/\ Done(p, "processReferralCode")
        /\ proc[p].result.kind = "failure"
        /\ proc[p].failedAt \notin MutationSteps)
       => proc[p].eff = {}

\* C27: every committed usage-counter increment of a redemption comes with a
\* committed credit grant of that redemption, also when the referrer and the
\* referee both have no referral headroom left.
C27_IncrementHasGrant ==
    \A p \in Procs :
       (/\ proc[p].op = "processReferralCode"
        /\ <<"uses", proc[p].referrer, 1>> \in proc[p].eff)
       => /\ \E e \in proc[p].eff : e[1] = "credit"
          /\ PairCredits(proc[p].referrer, proc[p].user) > 0

\* C28: in the voice-note flow with a Twilio client, once recordTranscription
\* has returned a user with credits_remaining <= 4, free_trial_used false and
\* no referral code yet, the next step of the handler is the attempt to issue
\* a referral code.
C28_IssuanceAttempted ==
    [][\A p \in Procs :
          (/\ proc[p].op = "handleVoiceNote"
           /\ proc[p].flow = "twilio"
           /\ proc[p].pc = "vn_recorded"
           /\ proc[p].result.user.credits_remaining <= 4
           /\ ~proc[p].result.user.free_trial_used
           /\ proc[p].result.user.referral_code = NoCode
           /\ proc'[p] # proc[p])
          => proc'[p].pc = "gen_select"]_vars

\* The credits of the committed credit_transactions rows of user u, and the
\* credits of u's committed payments.
LedgerCredits(u) ==
    SumAmounts({r \in BagToSet(credit_transactions) : r.user_id = u},
               credit_transactions)

RECURSIVE SumPurchased(_)
SumPurchased(rows) ==
    IF rows = {} THEN 0
    ELSE LET r == CHOOSE x \in rows : TRUE
         IN  r.credits_purchased * CopiesIn(r, payments)
             + SumPurchased(rows \ {r})

PaymentCreditsOf(u) ==
    SumPurchased({r \in BagToSet(payments) : r.user_id = u})

\* C29: in every committed state and for every user, credits_remaining is 50
\* plus the user's credit_transactions amounts plus the user's purchased
\* credits minus the number of the user's transcription rows.
C29_LedgerEquation ==
    \A u \in DOMAIN users :
       users[u].credits_remaining
         = InitialCredits + LedgerCredits(u) + PaymentCreditsOf(u)
           - transcriptions[u]

\* A transcription and a credit operation on the same user, by two handlers,
\* have both committed.
C29_Witness ==
    \E p, q \in Procs :
       /\ Done(p, "recordTranscription") /\ proc[p].eff # {}
       /\ proc[q].pc = "done"
       /\ proc[q].op \in {"addCredits", "addCreditsToUser"}
       /\ proc[q].eff # {}
       /\ proc[p].user \in {proc[q].user, proc[q].atuUser}

\* C30: with no store error, every findOrCreateUser call returns the user:
\* the row of its phone number, which for a phone number first seen by this
\* call is a new row with 50 credits and free_trial_used false; this also
\* when two calls for the same unseen phone number overlap.
C30_EachCallReturnsTheUser ==
    \A p \in Procs :
       (Done(p, "findOrCreateUser") /\ faults = 0)
       => /\ proc[p].result.kind = "returned"
          /\ proc[p].user \in DOMAIN users
          /\ proc[p].eff # {}
               => /\ proc[p].result.user.credits_remaining = InitialCredits
                  /\ ~proc[p].result.user.free_trial_used

====
